---- MODULE Spec2Model ----
(***************************************************************************)
(* lilx - a small DOM style parser for XML snippets (src/lilx.c,           *)
(* src/stack.c).  The module models lilx_create_tree: the pattern matcher  *)
(* (__lilx_compare), the transition table and its selection rule           *)
(* (__lilx_get_next_state), the action handlers, the bounded stack and     *)
(* the heap of elements and attributes, with free() tracked per block.     *)
(*                                                                         *)
(* Characters are one-character strings; a C string is a sequence of       *)
(* them.  The terminating NUL byte of the input is the value NUL.          *)
(* Unsigned 8-bit quantities are kept modulo 2^8.                          *)
(***************************************************************************)
EXTENDS Integers, Sequences, FiniteSets, TLC

----------------------------------------------------------------------------
(* Program constants.                                                      *)

LILX_MAX_TOKEN_LENGTH == 1000

LILX_STACK_SIZE == 100

NUM_STATES == 7

STATE_CHOICES == 2

ELEM_NAME_START == 0
ELEM_NAME_END == 1
ATTR_NAME == 2
ATTR_VAL == 3
ELEM == 4
COMMENT == 5
END == 6

\* Greatest value of a uint8_t
UINT8_MAX == 255

\* uint8_t arithmetic
U8(n) == n % (UINT8_MAX + 1)

----------------------------------------------------------------------------
(* Characters and <ctype.h> classes (C locale, ASCII).                     *)

NUL == "NUL"

Letters ==
    { "a","b","c","d","e","f","g","h","i","j","k","l","m",
      "n","o","p","q","r","s","t","u","v","w","x","y","z",
      "A","B","C","D","E","F","G","H","I","J","K","L","M",
      "N","O","P","Q","R","S","T","U","V","W","X","Y","Z" }

Digits == { "0","1","2","3","4","5","6","7","8","9" }

isalnum(c) == c \in Letters \cup Digits

\* ' ', \t, \n, \r, \f (and \v, which has no TLA+ spelling and is not used)
isspace(c) == c \in { " ", "\t", "\n", "\r", "\f" }

\* Faulty variant of XML_BODY_CHARS: '<' is among the characters.
body_chars_with_lt ==
    { "!","@","#","$","%","^","&","*","(",")","-","_","=","+",
      "[","{","]","}","\\","/","|",";",":",",",".","?","<" }

XML_BODY_CHARS ==
    { "!","@","#","$","%","^","&","*","(",")","-","_","=","+",
      "[","{","]","}","\\","/","|",";",":",",",".","?" }

\* The byte at index p (1-based) of the NUL-terminated string x.
CharAt(x, p) == IF p >= 1 /\ p <= Len(x) THEN x[p] ELSE NUL

----------------------------------------------------------------------------
(* The transition table.  NoTran stands for a NULL entry.                  *)

NoTran == << >>

Q == "\""

__lilx_transitions ==
    [ s \in 0..(NUM_STATES - 1) |->
        CASE s = ELEM_NAME_START ->
               << << <<"s",">","s","<","a">>, <<"s","/",">","s","<","a">> >>,
                  << <<"s",">","s","<","/","a">>,
                     <<"s","/",">","s","<","/","a">> >>,
                  << <<"S","s","a">>, NoTran >>,
                  << NoTran, NoTran >>,
                  << <<"s",">","s","A">>, NoTran >>,
                  << <<"s",">","s","<","!","-","-","s","A">>,
                     <<"s","/",">","s","<","!","-","-","s","A">> >>,
                  << <<"s","/",">","s","0">>, NoTran >> >>
          [] s = ELEM_NAME_END ->
               << << <<"s",">","s","<","a">>, NoTran >>,
                  << <<"s",">","s","<","/","a">>, NoTran >>,
                  << NoTran, NoTran >>,
                  << NoTran, NoTran >>,
                  << <<"s",">","s","A">>, NoTran >>,
                  << <<"s",">","s","<","!","-","-">>, NoTran >>,
                  << <<"s",">","s","0">>, NoTran >> >>
          [] s = ATTR_NAME ->
               << << NoTran, NoTran >>,
                  << NoTran, NoTran >>,
                  << NoTran, NoTran >>,
                  << <<"=",Q,"s","A">>, NoTran >>,
                  << NoTran, NoTran >>,
                  << NoTran, NoTran >>,
                  << NoTran, NoTran >> >>
          [] s = ATTR_VAL ->
               << << <<Q,"s",">","s","<","a">>,
                     <<Q,"s","/",">","s","<","a">> >>,
                  << <<Q,"s",">","s","<","/","a">>,
                     <<Q,"s","/",">","s","<","/","a">> >>,
                  << <<Q,"S","s","a">>, NoTran >>,
                  << NoTran, NoTran >>,
                  << <<Q,"s",">","A">>, <<Q,"s","/",">","s","A">> >>,
                  << <<Q,"s",">","s","<","!","-","-","s","A">>,
                     <<Q,"s","/",">","s","<","!","-","-","s","A">> >>,
                  << <<Q,"s","/",">","s","0">>, NoTran >> >>
          [] s = ELEM ->
               << << <<"s","<","a">>, NoTran >>,
                  << <<"s","<","/","a">>, NoTran >>,
                  << NoTran, NoTran >>,
                  << NoTran, NoTran >>,
                  << NoTran, NoTran >>,
                  << <<"<","!","-","-","s","A">>, NoTran >>,
                  << NoTran, NoTran >> >>
          [] s = COMMENT ->
               << << <<"-","-",">","s","<","a">>, NoTran >>,
                  << <<"-","-",">","s","<","/","a">>, NoTran >>,
                  << NoTran, NoTran >>,
                  << NoTran, NoTran >>,
                  << <<"-","-",">","s","A">>, NoTran >>,
                  << <<"-","-",">","s","<","!","-","-","s","A">>, NoTran >>,
                  << NoTran, NoTran >> >>
          [] OTHER ->
               << << NoTran, NoTran >>, << NoTran, NoTran >>,
                  << NoTran, NoTran >>, << NoTran, NoTran >>,
                  << NoTran, NoTran >>, << NoTran, NoTran >>,
                  << NoTran, NoTran >> >> ]

\* Faulty variant of Tran: the indices of the source and of the target
\* state are exchanged.
tran_transposed(state, i, j) == __lilx_transitions[i][state + 1][j + 1]

\* The entry __lilx_transitions[state][i][j], all indices counted from 0.
Tran(state, i, j) == __lilx_transitions[state][i + 1][j + 1]

----------------------------------------------------------------------------
(* __lilx_compare                                                          *)

\* Number of consecutive whitespace bytes of x starting at index p.  The
\* loop of case 's' stays on the pattern character once per such byte.
WsRun(x, p) ==
    IF ~isspace(CharAt(x, p)) THEN 0
    ELSE LET stops == { q \in p..(Len(x) + 1) : ~isspace(CharAt(x, q)) }
         IN  (CHOOSE q \in stops : \A r \in stops : q <= r) - p

\* The while loop of __lilx_compare from pattern index t (1-based) with the
\* input at index p and *offset = off.  Result: ret (0 match, 1 no match)
\* and the value left in *offset.
RECURSIVE CompareFrom(_, _, _, _, _)
CompareFrom(x, p, tran, t, off) ==
    IF t > Len(tran)
    THEN [ ret |-> 0, offset |-> U8(off - 1) ]
    ELSE LET c    == CharAt(x, p)
             tc   == tran[t]
             fail == [ ret |-> 1, offset |-> off ]
             step == CompareFrom(x, p + 1, tran, t + 1, U8(off + 1))
         IN  CASE tc = "A" ->
                    IF c \in XML_BODY_CHARS /\ c # NUL THEN step
                    ELSE IF ~isalnum(c) THEN fail ELSE step
               [] tc = "a" -> IF ~isalnum(c) THEN fail ELSE step
               [] tc = "S" -> IF ~isspace(c) THEN fail ELSE step
               [] tc = "s" ->
                    LET n == WsRun(x, p)
                    IN  CompareFrom(x, p + n, tran, t + 1, U8(off + n))
               [] tc = "0" -> IF c # NUL THEN fail ELSE step
               [] OTHER    -> IF tc # c THEN fail ELSE step

__lilx_compare(x, p, tran) == CompareFrom(x, p, tran, 1, 0)

----------------------------------------------------------------------------
(* __lilx_get_next_state                                                   *)

\* Faulty variant of ScanFrom: only the first alternative (j = 0) of each
\* target state is tried.
RECURSIVE scan_first_alternative(_, _, _, _)
scan_first_alternative(state, x, p, st) ==
    IF st.k >= NUM_STATES * STATE_CHOICES THEN st
    ELSE LET i    == st.k \div STATE_CHOICES
             j    == st.k % STATE_CHOICES
             tran == Tran(state, i, j)
             nxt  == [ st EXCEPT !.k = st.k + 1 ]
         IN  IF tran = NoTran \/ j # 0
             THEN scan_first_alternative(state, x, p, nxt)
             ELSE LET tranlen == U8(Len(tran))
                      cmp     == __lilx_compare(x, p, tran)
                  IN  IF cmp.ret = 0 /\ tranlen > st.last
                      THEN scan_first_alternative(state, x, p,
                             [ k |-> st.k + 1, last |-> tranlen,
                               state |-> i, offset |-> cmp.offset,
                               transition |-> tran ])
                      ELSE scan_first_alternative(state, x, p, nxt)

\* The two nested for loops from candidate k = i * STATE_CHOICES + j on.
\* acc holds last, *current_state, *offset and *transition.
RECURSIVE ScanFrom(_, _, _, _)
ScanFrom(state, x, p, st) ==
    IF st.k >= NUM_STATES * STATE_CHOICES THEN st
    ELSE LET i    == st.k \div STATE_CHOICES
             j    == st.k % STATE_CHOICES
             tran == Tran(state, i, j)
             nxt  == [ st EXCEPT !.k = st.k + 1 ]
         IN  IF tran = NoTran THEN ScanFrom(state, x, p, nxt)
             ELSE LET tranlen == U8(Len(tran))
                      cmp     == __lilx_compare(x, p, tran)
                  IN  IF cmp.ret = 0 /\ tranlen > st.last
                      THEN ScanFrom(state, x, p,
                             [ k |-> st.k + 1, last |-> tranlen,
                               state |-> i, offset |-> cmp.offset,
                               transition |-> tran ])
                      ELSE ScanFrom(state, x, p, nxt)

\* ret = 0 when a state change was detected and 1 otherwise; state is the
\* value left in *current_state.
__lilx_get_next_state(state, x, p) ==
    LET r == ScanFrom(state, x, p,
               [ k |-> 0, last |-> -1, state |-> state, offset |-> 0,
                 transition |-> NoTran ])
    IN  [ ret |-> IF r.last = -1 THEN 1 ELSE 0, state |-> r.state,
          offset |-> r.offset, transition |-> r.transition ]

\* strstr(transition, "/>") != NULL
HasSelfClose(transition) ==
    \E t \in 1..(Len(transition) - 1) :
        transition[t] = "/" /\ transition[t + 1] = ">"

----------------------------------------------------------------------------
(* Memory.  An element_t or attribute_t block is a record of a sequence    *)
(* (elems, attrs) and its address is its index; fr counts the free()       *)
(* calls made on the block.  A char* or array pointer field that is the    *)
(* only reference to its block carries the block with it: st is "null"     *)
(* (NULL), "live" (allocated) or "freed" (released, pointer not reset).    *)
(* A void* on the stack is a handle: NULL, an element or an attribute.     *)

NULLP == [ k |-> "null", id |-> 0 ]

EP(i) == [ k |-> "elem", id |-> i ]

AP(i) == [ k |-> "attr", id |-> i ]

NullStr == [ st |-> "null", s |-> << >> ]

LiveStr(s) == [ st |-> "live", s |-> s ]

NullArr == [ st |-> "null", a |-> << >> ]

\* free(p) on a pointer field: NULL is a no-op.
FreeField(f) == IF f.st = "null" THEN f ELSE [ f EXCEPT !.st = "freed" ]

\* free(p) of a block that is already released (undefined behaviour)
DoubleFree(f) == f.st = "freed"

\* The caller's root element is block 1 of elems.
ROOT == 1

\* Contents of an element_t whose fields were never written.
UninitElement ==
    [ name |-> [ st |-> "uninit", s |-> << >> ],
      body |-> [ st |-> "uninit", s |-> << >> ],
      num_attributes |-> 0,
      attributes |-> [ st |-> "uninit", a |-> << >> ],
      num_children |-> 0,
      children |-> [ st |-> "uninit", a |-> << >> ],
      fr |-> 0 ]

__lilx_init_element(e) ==
    [ e EXCEPT !.name = NullStr, !.body = NullStr,
               !.children = NullArr, !.attributes = NullArr,
               !.num_children = 0, !.num_attributes = 0 ]

\* Faulty variant of strncmp: the two strings are compared to their ends
\* (strcmp), whatever n is.
strncmp_whole(a, b, n) == IF a = b THEN 0 ELSE 1

\* strncmp(a, b, n) for NUL-terminated a and b: the comparison stops at
\* the first index where the bytes differ or a ends, or after n bytes.
\* 0 when no difference was found, 1 otherwise.
strncmp(a, b, n) ==
    LET stops == { i \in 1..n : CharAt(a, i) # CharAt(b, i)
                                \/ CharAt(a, i) = NUL }
        first == CHOOSE i \in stops : \A j \in stops : i <= j
    IN  IF stops = {} THEN 0
        ELSE IF CharAt(a, first) # CharAt(b, first) THEN 1 ELSE 0

----------------------------------------------------------------------------
(* src/stack.c.  top is the slot of the buffer that stack->top points to,  *)
(* counted from the address malloc returned (slot 0); buf holds the slots  *)
(* written so far (malloc does not initialise the buffer), slot -1 being   *)
(* the word in front of the buffer.  alloc is the state of the buffer:     *)
(* "none", "live", "freed".                                                *)

NoStack ==
    [ capacity |-> 0, size |-> 0, top |-> 0, alloc |-> "none",
      buf |-> [ i \in {} |-> NULLP ] ]

\* fail: malloc returns NULL
stack_create(size, fail) ==
    [ ret   |-> IF fail THEN 1 ELSE 0,
      stack |-> [ capacity |-> size, size |-> 0, top |-> 0,
                  alloc |-> IF fail THEN "none" ELSE "live",
                  buf |-> [ i \in {} |-> NULLP ] ] ]

\* ub: free() of an address that malloc did not return, or twice
stack_free(stack) ==
    LET top == stack.top - (stack.size - 1)
    IN  [ stack |-> [ stack EXCEPT !.top = top, !.alloc = "freed" ],
          ub    |-> top # 0 \/ stack.alloc # "live" ]

\* Faulty variant of stack_push: the test of size against capacity is
\* missing.
push_unchecked(stack, element) ==
    IF element = NULLP THEN [ ret |-> 1, stack |-> stack, ub |-> FALSE ]
    ELSE LET top == IF stack.size > 0 THEN stack.top + 1 ELSE stack.top
         IN  [ ret   |-> 0,
               stack |-> [ stack EXCEPT
                             !.top = top,
                             !.buf = [ i \in DOMAIN stack.buf \cup { top }
                                         |-> IF i = top THEN element
                                             ELSE stack.buf[i] ],
                             !.size = U8(stack.size + 1) ],
               ub    |-> top < 0 \/ top >= stack.capacity ]

\* ub: the store lands outside the buffer
stack_push(stack, element) ==
    IF element = NULLP THEN [ ret |-> 1, stack |-> stack, ub |-> FALSE ]
    ELSE IF stack.size >= stack.capacity
    THEN [ ret |-> 1, stack |-> stack, ub |-> FALSE ]
    ELSE LET top == IF stack.size > 0 THEN stack.top + 1 ELSE stack.top
         IN  [ ret   |-> 0,
               stack |-> [ stack EXCEPT
                             !.top = top,
                             !.buf = [ i \in DOMAIN stack.buf \cup { top }
                                         |-> IF i = top THEN element
                                             ELSE stack.buf[i] ],
                             !.size = U8(stack.size + 1) ],
               ub    |-> top < 0 \/ top >= stack.capacity ]

stack_pop(stack) ==
    IF stack.size = 0 \/ stack.size > stack.capacity
    THEN [ element |-> NULLP, stack |-> stack ]
    ELSE [ element |-> stack.buf[stack.top],
           stack   |-> [ stack EXCEPT !.top = stack.top - 1,
                                      !.size = stack.size - 1 ] ]

stack_peek(stack) ==
    IF stack.size = 0 \/ stack.size > stack.capacity THEN NULLP
    ELSE stack.buf[stack.top]

\* The handles held by the stack, bottom first.
Frames(stack) ==
    [ i \in 1..stack.size |-> stack.buf[stack.top - stack.size + i] ]

----------------------------------------------------------------------------
(* Tree growth and release.                                                *)

\* An element_t that malloc just returned and __lilx_init_element cleared.
NewElement == __lilx_init_element(UninitElement)

NewAttribute == [ name |-> NullStr, value |-> NullStr, fr |-> 0 ]

\* free(element) / free(attr) of block i
FreeElem(elems, i) == [ elems EXCEPT ![i].fr = @ + 1 ]

FreeAttr(attrs, i) == [ attrs EXCEPT ![i].fr = @ + 1 ]

\* Faulty variant of __lilx_add_child: the new child is stored in front of
\* the old ones.
add_child_in_front(elems, p, child, fail) ==
    IF fail THEN [ ret |-> 1, elems |-> elems ]
    ELSE LET old == elems[p].children
             i   == IF old.st # "null" THEN elems[p].num_children ELSE 0
             new == [ st |-> "live",
                      a  |-> << child >> \o SubSeq(old.a, 1, i) ]
         IN  [ ret   |-> 0,
               elems |-> [ elems EXCEPT
                             ![p].children = new,
                             ![p].num_children = U8(@ + 1) ] ]

\* __lilx_add_child on parent block p; fail: malloc returns NULL.
__lilx_add_child(elems, p, child, fail) ==
    IF fail THEN [ ret |-> 1, elems |-> elems ]
    ELSE LET old == elems[p].children
             i   == IF old.st # "null" THEN elems[p].num_children ELSE 0
             new == [ st |-> "live",
                      a  |-> SubSeq(old.a, 1, i) \o << child >> ]
         IN  [ ret   |-> 0,
               elems |-> [ elems EXCEPT
                             ![p].children = new,
                             ![p].num_children = U8(@ + 1) ] ]

\* Faulty variant of __lilx_add_attr: the new attribute is stored in front
\* of the old ones.
add_attr_in_front(elems, e, attr, fail) ==
    IF fail THEN [ ret |-> 1, elems |-> elems ]
    ELSE LET old == elems[e].attributes
             i   == IF old.st # "null" THEN elems[e].num_attributes ELSE 0
             new == [ st |-> "live",
                      a  |-> << attr >> \o SubSeq(old.a, 1, i) ]
         IN  [ ret   |-> 0,
               elems |-> [ elems EXCEPT
                             ![e].attributes = new,
                             ![e].num_attributes = U8(@ + 1) ] ]

\* __lilx_add_attr on element block e; fail: malloc returns NULL.
__lilx_add_attr(elems, e, attr, fail) ==
    IF fail THEN [ ret |-> 1, elems |-> elems ]
    ELSE LET old == elems[e].attributes
             i   == IF old.st # "null" THEN elems[e].num_attributes ELSE 0
             new == [ st |-> "live",
                      a  |-> SubSeq(old.a, 1, i) \o << attr >> ]
         IN  [ ret   |-> 0,
               elems |-> [ elems EXCEPT
                             ![e].attributes = new,
                             ![e].num_attributes = U8(@ + 1) ] ]

\* children[0 .. num_children-1] of element e
Children(elems, e) ==
    { elems[e].children.a[i] : i \in 1..elems[e].num_children }

\* attributes[0 .. num_attributes-1] of element e
Attributes(elems, e) ==
    { elems[e].attributes.a[i] : i \in 1..elems[e].num_attributes }

\* The elements the recursion of __lilx_free_tree visits from the elements
\* of S on, S included: the descendants through the child arrays.
RECURSIVE Visited(_, _, _)
Visited(elems, S, frontier) ==
    LET below == UNION { Children(elems, e) : e \in frontier } \ S
    IN  IF below = {} THEN S ELSE Visited(elems, S \cup below, below)

\* __lilx_free_tree(element e, is_root) on h = [elems, attrs, ub].  Every
\* element is in at most one child array and every attribute in at most
\* one attribute array, once, so the recursion visits each block it
\* reaches exactly once; the order of the visits does not matter to the
\* result, which is given block by block.  Reading or releasing a block
\* that was released before sets ub, and the run goes on with the bytes
\* the block still holds.
__lilx_free_tree(h, e, is_root) ==
    LET es == Visited(h.elems, { e }, { e })
        as == UNION { Attributes(h.elems, v) : v \in es }
        badE(v) == LET rec == h.elems[v]
                   IN  rec.fr > 0 \/ DoubleFree(rec.name)
                       \/ DoubleFree(rec.body)
                       \/ DoubleFree(rec.attributes)
                       \/ DoubleFree(rec.children)
        badA(a) == LET rec == h.attrs[a]
                   IN  rec.fr > 0 \/ DoubleFree(rec.name)
                       \/ DoubleFree(rec.value)
        freedE(v) == LET rec == h.elems[v]
                     IN  [ rec EXCEPT
                             !.name = FreeField(@),
                             !.body = FreeField(@),
                             !.num_attributes = 0,
                             !.attributes = FreeField(@),
                             !.num_children = 0,
                             !.children = FreeField(@),
                             !.fr = IF v = e /\ is_root # 0
                                    THEN @ ELSE @ + 1 ]
        freedA(a) == LET rec == h.attrs[a]
                     IN  [ rec EXCEPT !.name = FreeField(@),
                                      !.value = FreeField(@),
                                      !.fr = @ + 1 ]
    IN  [ elems |-> [ v \in DOMAIN h.elems |->
                        IF v \in es THEN freedE(v) ELSE h.elems[v] ],
          attrs |-> [ a \in DOMAIN h.attrs |->
                        IF a \in as THEN freedA(a) ELSE h.attrs[a] ],
          ub    |-> h.ub \/ (\E v \in es : badE(v))
                         \/ (\E a \in as : badA(a)) ]

lilx_free_tree(h, root) == __lilx_free_tree(h, root, 1)

----------------------------------------------------------------------------
(* Action handlers.  m is [elems, attrs, stack]; f numbers the malloc call *)
(* of the invocation that returns NULL (0: none does).  The result holds   *)
(* the return value, the memory and the stack left behind, ub (an          *)
(* undefined operation was executed) and oom (a malloc returned NULL).     *)
(* A handler that finds a frame of the other kind on top of the stack      *)
(* would read it through the wrong struct type: that is reported as ub.    *)

Result(ret, elems, attrs, stack, ub, oom) ==
    [ ret |-> ret, elems |-> elems, attrs |-> attrs, stack |-> stack,
      ub |-> ub, oom |-> oom ]

__lilx_elem_name_start_action(m, tkn, transition, f) ==
    IF f = 1 THEN Result(1, m.elems, m.attrs, m.stack, FALSE, TRUE)
    ELSE
    LET element == Len(m.elems) + 1
        e1      == Append(m.elems, NewElement)
    IN  IF f = 2
        THEN Result(1, FreeElem(e1, element), m.attrs, m.stack, FALSE, TRUE)
        ELSE
        LET e2     == [ e1 EXCEPT ![element].name = LiveStr(tkn) ]
            parent == stack_peek(m.stack)
            undo(es) == FreeElem(
                          [ es EXCEPT ![element].name = FreeField(@) ],
                          element)
            add    == IF parent = NULLP THEN [ ret |-> 0, elems |-> e2 ]
                      ELSE __lilx_add_child(e2, parent.id, element, f = 3)
            wrong  == parent.k = "attr"
        IN  IF wrong
            THEN Result(1, e2, m.attrs, m.stack, TRUE, FALSE)
            ELSE IF add.ret # 0
            THEN Result(1, undo(add.elems), m.attrs, m.stack, FALSE, TRUE)
            ELSE IF HasSelfClose(transition)
            THEN Result(0, add.elems, m.attrs, m.stack, FALSE, FALSE)
            ELSE LET push == stack_push(m.stack, EP(element))
                 IN  IF push.ret # 0
                     THEN Result(1, undo(add.elems), m.attrs, push.stack,
                                 push.ub, FALSE)
                     ELSE Result(0, add.elems, m.attrs, push.stack,
                                 push.ub, FALSE)

__lilx_elem_name_end_action(m, tkn, transition) ==
    LET element == stack_peek(m.stack)
        name    == IF element.k = "elem" THEN m.elems[element.id].name
                   ELSE m.attrs[element.id].name
        fail    == Result(1, m.elems, m.attrs, m.stack, FALSE, FALSE)
    IN  IF element = NULLP THEN fail
        ELSE IF strncmp(name.s, tkn, Len(tkn)) # 0 THEN fail
        ELSE LET pop == stack_pop(m.stack)
             IN  IF pop.element # element
                 THEN Result(1, m.elems, m.attrs, pop.stack, FALSE, FALSE)
                 ELSE Result(0, m.elems, m.attrs, pop.stack,
                             element.k # "elem", FALSE)

__lilx_attr_name_action(m, tkn, transition, f) ==
    IF f = 1 THEN Result(1, m.elems, m.attrs, m.stack, FALSE, TRUE)
    ELSE
    LET attr == Len(m.attrs) + 1
        a1   == Append(m.attrs, NewAttribute)
    IN  IF f = 2
        THEN Result(1, m.elems, FreeAttr(a1, attr), m.stack, FALSE, TRUE)
        ELSE
        LET a2      == [ a1 EXCEPT ![attr].name = LiveStr(tkn) ]
            element == stack_peek(m.stack)
            undo    == FreeAttr(
                         [ a2 EXCEPT ![attr].name = FreeField(@) ], attr)
            add     == IF element = NULLP
                       THEN [ ret |-> 1, elems |-> m.elems ]
                       ELSE __lilx_add_attr(m.elems, element.id, attr,
                                            f = 3)
            wrong   == element.k = "attr"
        IN  IF wrong
            THEN Result(1, m.elems, a2, m.stack, TRUE, FALSE)
            ELSE IF add.ret # 0
            THEN Result(1, add.elems, undo, m.stack, FALSE,
                        element # NULLP)
            ELSE LET push == stack_push(m.stack, AP(attr))
                 IN  IF push.ret # 0
                     THEN Result(1, add.elems, undo, push.stack,
                                 push.ub, FALSE)
                     ELSE Result(0, add.elems, a2, push.stack,
                                 push.ub, FALSE)

\* Faulty variant of __lilx_attr_val_action: the attribute is left on the
\* stack.
attr_val_no_pop(m, tkn, transition, f) ==
    LET attr == stack_peek(m.stack)
        fail == Result(1, m.elems, m.attrs, m.stack, FALSE, FALSE)
    IN  IF attr = NULLP THEN fail
        ELSE IF attr.k = "elem"
        THEN Result(1, m.elems, m.attrs, m.stack, TRUE, FALSE)
        ELSE IF m.attrs[attr.id].value.st # "null" THEN fail
        ELSE IF f = 1
        THEN Result(1, m.elems, m.attrs, m.stack, FALSE, TRUE)
        ELSE Result(0, m.elems,
                    [ m.attrs EXCEPT ![attr.id].value = LiveStr(tkn) ],
                    m.stack, FALSE, FALSE)

\* Faulty variant of __lilx_attr_val_action: the value is stored without
\* the test of attr->value against NULL.
attr_val_unchecked(m, tkn, transition, f) ==
    LET attr == stack_peek(m.stack)
        fail == Result(1, m.elems, m.attrs, m.stack, FALSE, FALSE)
    IN  IF attr = NULLP THEN fail
        ELSE IF attr.k = "elem"
        THEN Result(1, m.elems, m.attrs, m.stack, TRUE, FALSE)
        ELSE IF f = 1
        THEN Result(1, m.elems, m.attrs, m.stack, FALSE, TRUE)
        ELSE
        LET a1   == [ m.attrs EXCEPT ![attr.id].value = LiveStr(tkn) ]
            a1f  == [ a1 EXCEPT ![attr.id].value = FreeField(@) ]
            pop1 == stack_pop(m.stack)
            pop2 == stack_pop(pop1.stack)
        IN  IF pop1.element # attr
            THEN Result(1, m.elems, a1f, pop1.stack, FALSE, FALSE)
            ELSE IF HasSelfClose(transition)
            THEN IF pop2.element = NULLP
                 THEN Result(1, m.elems, a1f, pop2.stack, FALSE, FALSE)
                 ELSE Result(0, m.elems, a1, pop2.stack, FALSE, FALSE)
            ELSE Result(0, m.elems, a1, pop1.stack, FALSE, FALSE)

__lilx_attr_val_action(m, tkn, transition, f) ==
    LET attr == stack_peek(m.stack)
        fail == Result(1, m.elems, m.attrs, m.stack, FALSE, FALSE)
    IN  IF attr = NULLP THEN fail
        ELSE IF attr.k = "elem"
        THEN Result(1, m.elems, m.attrs, m.stack, TRUE, FALSE)
        ELSE IF m.attrs[attr.id].value.st # "null" THEN fail
        ELSE IF f = 1
        THEN Result(1, m.elems, m.attrs, m.stack, FALSE, TRUE)
        ELSE
        LET a1   == [ m.attrs EXCEPT ![attr.id].value = LiveStr(tkn) ]
            a1f  == [ a1 EXCEPT ![attr.id].value = FreeField(@) ]
            pop1 == stack_pop(m.stack)
            pop2 == stack_pop(pop1.stack)
        IN  IF pop1.element # attr
            THEN Result(1, m.elems, a1f, pop1.stack, FALSE, FALSE)
            ELSE IF HasSelfClose(transition)
            THEN IF pop2.element = NULLP
                 THEN Result(1, m.elems, a1f, pop2.stack, FALSE, FALSE)
                 ELSE Result(0, m.elems, a1, pop2.stack, FALSE, FALSE)
            ELSE Result(0, m.elems, a1, pop1.stack, FALSE, FALSE)

__lilx_elem_action(m, tkn, transition, f) ==
    LET element == stack_peek(m.stack)
    IN  IF element = NULLP
        THEN Result(1, m.elems, m.attrs, m.stack, FALSE, FALSE)
        ELSE IF element.k = "attr"
        THEN Result(1, m.elems, m.attrs, m.stack, TRUE, FALSE)
        ELSE LET body == m.elems[element.id].body
                 e1   == [ m.elems EXCEPT ![element.id].body = NullStr ]
                 e2   == [ m.elems EXCEPT
                             ![element.id].body = LiveStr(tkn) ]
             IN  IF f = 1
                 THEN Result(1, e1, m.attrs, m.stack, DoubleFree(body), TRUE)
                 ELSE Result(0, e2, m.attrs, m.stack, DoubleFree(body),
                             FALSE)

__lilx_comment_action(m, tkn, transition) ==
    Result(0, m.elems, m.attrs, m.stack, FALSE, FALSE)

__lilx_end_action(m, tkn, transition) ==
    Result(0, m.elems, m.attrs, m.stack, FALSE, FALSE)

\* __lilx_actions[state](&stack, token, transition)
__lilx_actions(state, m, tkn, transition, f) ==
    CASE state = ELEM_NAME_START ->
           __lilx_elem_name_start_action(m, tkn, transition, f)
      [] state = ELEM_NAME_END ->
           __lilx_elem_name_end_action(m, tkn, transition)
      [] state = ATTR_NAME ->
           __lilx_attr_name_action(m, tkn, transition, f)
      [] state = ATTR_VAL ->
           __lilx_attr_val_action(m, tkn, transition, f)
      [] state = ELEM ->
           __lilx_elem_action(m, tkn, transition, f)
      [] state = COMMENT ->
           __lilx_comment_action(m, tkn, transition)
      [] OTHER ->
           __lilx_end_action(m, tkn, transition)

\* f: no malloc call fails (0), or the first, second or third one does.
MallocCalls == 0..3

----------------------------------------------------------------------------
(* lilx_create_tree(xml, root)                                             *)

VARIABLES
    xml,      \* the input string, without its terminating NUL
    pc,       \* "entry", "loop", "exit" (loop left by break), "done",
              \* "crashed" (an undefined operation ended the process),
              \* "searched" (the caller has called a tree utility);
              \* "stack", "freed" for a stack used on its own
    ret,      \* the value returned: "none" until pc = "done", then 0 or 1
    pos,      \* index (1-based) of the byte the cursor xml points to
    state,    \* current state of the automaton
    tknidx,   \* number of bytes held by the pending token
    token,    \* token[0 .. tknidx-1]
    stack,    \* the processing stack
    elems,    \* element_t blocks; elems[ROOT] is the caller's root
    attrs,    \* attribute_t blocks
    ub,       \* history: an undefined operation was executed
    oom,      \* history: a malloc call returned NULL
    brk,      \* history: why the loop was left by break ("none" if not)
    last,     \* history: what the last loop iteration did
    atret,    \* history: state and stack frames when the cleanup began
    earlier,  \* the caller's earlier parse: its input and its tree
    query,    \* the caller's last call of a tree utility, and its result
    pushed,   \* history of a stack used on its own: the handles pushed
              \* and not popped yet, oldest first
    op        \* history of a stack used on its own: the last call

vars == << xml, pc, ret, pos, state, tknidx, token, stack, elems, attrs,
           ub, oom, brk, last, atret, earlier, query, pushed, op >>

\* What belongs to the user of a stack on its own.
stackuser == << pushed, op >>

\* What belongs to the caller of lilx_create_tree.
caller == << earlier, query, stackuser >>

NoParse == [ xml |-> << >>, elems |-> << >>, attrs |-> << >> ]

NoQuery == [ fn |-> "none" ]

NoOp == [ fn |-> "none" ]

\* last: kind of iteration ("nomatch", "match"), the state, cursor, token
\* and stack frames it started with, the transition it matched, the
\* handler's return value, and same: the iteration left the cursor, the
\* state, the token, the stack and the heap exactly as it found them.
NoEvent ==
    [ kind |-> "none", state |-> 0, pos |-> 0, tkn |-> << >>,
      transition |-> NoTran, ret |-> 0, frames |-> << >>, same |-> FALSE ]

NotReturned == [ state |-> 0, frames |-> << >>, reached |-> FALSE ]

\* while (state != END && (*xml) != '\0')
LoopCond == state # END /\ CharAt(xml, pos) # NUL

\* The transition found at the cursor by this iteration.
Found == __lilx_get_next_state(state, xml, pos)

\* After an undefined operation the run either goes on or is killed.
Outcomes(normal, undefined) ==
    IF undefined THEN { normal, "crashed" } ELSE { normal }

\* Lines 338-374: f is the malloc call that returns NULL (1: the stack
\* buffer, 2: the token buffer, 3: the root's name; 0: none).
Enter ==
    /\ pc = "entry"
    /\ \E f \in MallocCalls :
         LET root0  == __lilx_init_element(elems[ROOT])
             create == stack_create(LILX_STACK_SIZE, f = 1)
             sfree  == stack_free(create.stack)
             root1  == [ root0 EXCEPT !.name = LiveStr(<<"r","o","o","t">>) ]
             push   == stack_push(create.stack, EP(ROOT))
             pfree  == stack_free(push.stack)
             giveup(st, es, u, o) ==
                 /\ stack' = st
                 /\ elems' = es
                 /\ ub' = u
                 /\ oom' = o
                 /\ pc' \in Outcomes("done", u)
                 /\ ret' = IF pc' = "done" THEN 1 ELSE "none"
                 /\ UNCHANGED << pos, state >>
         IN  /\ IF CharAt(xml, 1) # "<"
                THEN giveup(stack, [ elems EXCEPT ![ROOT] = root0 ],
                            FALSE, FALSE)
                ELSE IF f = 1
                THEN giveup(create.stack, [ elems EXCEPT ![ROOT] = root0 ],
                            FALSE, TRUE)
                ELSE IF f = 2 \/ f = 3
                THEN giveup(sfree.stack, [ elems EXCEPT ![ROOT] = root0 ],
                            sfree.ub, TRUE)
                ELSE IF push.ret # 0
                THEN giveup(pfree.stack,
                            [ elems EXCEPT
                                ![ROOT] = [ root1 EXCEPT
                                              !.name = FreeField(@) ] ],
                            pfree.ub \/ push.ub, FALSE)
                ELSE /\ stack' = push.stack
                     /\ elems' = [ elems EXCEPT ![ROOT] = root1 ]
                     /\ ub' = push.ub
                     /\ oom' = FALSE
                     /\ pc' \in Outcomes("loop", push.ub)
                     /\ ret' = "none"
                     /\ pos' = 2
                     /\ state' = ELEM_NAME_START
             /\ UNCHANGED << xml, tknidx, token, attrs, brk, last, atret >>
    /\ UNCHANGED caller

\* Faulty variant of NoMatch: the test of tknidx against
\* LILX_MAX_TOKEN_LENGTH is missing.
NoMatchUnchecked ==
    /\ pc = "loop"
    /\ LoopCond
    /\ \E fnd \in { Found } : fnd.ret # 0
    /\ token' = Append(token, CharAt(xml, pos))
    /\ tknidx' = tknidx + 1
    /\ pos' = pos + 1
    /\ last' = [ NoEvent EXCEPT !.kind = "nomatch", !.state = state,
                                !.pos = pos, !.tkn = token,
                                !.frames = Frames(stack) ]
    /\ UNCHANGED << xml, pc, ret, state, stack, elems, attrs, ub, oom, brk,
                    atret >>
    /\ UNCHANGED caller

\* Lines 385-401: no state change at the cursor.
NoMatch ==
    /\ pc = "loop"
    /\ LoopCond
    /\ \E fnd \in { Found } : fnd.ret # 0
    /\ IF tknidx = LILX_MAX_TOKEN_LENGTH
       THEN /\ pc' = "exit"
            /\ brk' = "token"
            /\ UNCHANGED << tknidx, token, pos >>
       ELSE /\ token' = Append(token, CharAt(xml, pos))
            /\ tknidx' = tknidx + 1
            /\ pos' = pos + 1
            /\ UNCHANGED << pc, brk >>
    /\ last' = [ NoEvent EXCEPT !.kind = "nomatch", !.state = state,
                                !.pos = pos, !.tkn = token,
                                !.frames = Frames(stack) ]
    /\ UNCHANGED << xml, ret, state, stack, elems, attrs, ub, oom, atret >>
    /\ UNCHANGED caller

\* Lines 406-421: a state change at the cursor; f is the malloc call of
\* the handler that returns NULL (0: none).
Match ==
    /\ pc = "loop"
    /\ LoopCond
    /\ \E fnd \in { Found } :
         /\ fnd.ret = 0
         /\ \E f \in MallocCalls :
              \E r \in { __lilx_actions(state,
                           [ elems |-> elems, attrs |-> attrs,
                             stack |-> stack ],
                           token, fnd.transition, f) } :
                LET \* token[tknidx] = '\0' stores past a full buffer
                    u == tknidx >= LILX_MAX_TOKEN_LENGTH \/ r.ub
                IN  /\ tknidx' = 0
                    /\ token' = << >>
                    /\ elems' = r.elems
                    /\ attrs' = r.attrs
                    /\ stack' = r.stack
                    /\ ub' = (ub \/ u)
                    /\ oom' = (oom \/ r.oom)
                    /\ last' = [ kind |-> "match", state |-> state,
                                 pos |-> pos, tkn |-> token,
                                 transition |-> fnd.transition,
                                 ret |-> r.ret, frames |-> Frames(stack),
                                 same |-> /\ r.ret = 0
                                          /\ fnd.offset = 0
                                          /\ fnd.state = state
                                          /\ tknidx = 0
                                          /\ r.stack = stack
                                          /\ r.elems = elems
                                          /\ r.attrs = attrs ]
                    /\ IF r.ret # 0
                       THEN /\ pc' \in Outcomes("exit", u)
                            /\ brk' = "handler"
                            /\ UNCHANGED << pos, state >>
                       ELSE /\ pc' \in Outcomes("loop", u)
                            /\ pos' = pos + fnd.offset
                            /\ state' = fnd.state
                            /\ UNCHANGED brk
    /\ UNCHANGED << xml, ret, atret >>
    /\ UNCHANGED caller

\* Lines 424-435, reached when the loop condition is false or by break.
Return ==
    /\ \/ pc = "exit"
       \/ pc = "loop" /\ ~LoopCond
    /\ \E sfree \in { stack_free(stack) } :
         IF state # END \/ stack.size # 1
         THEN \E h \in { lilx_free_tree(
                           [ elems |-> elems, attrs |-> attrs,
                             ub |-> FALSE ], ROOT) } :
                /\ stack' = sfree.stack
                /\ elems' = h.elems
                /\ attrs' = h.attrs
                /\ ub' = (ub \/ sfree.ub \/ h.ub)
                /\ pc' \in Outcomes("done", sfree.ub \/ h.ub)
                /\ ret' = IF pc' = "done" THEN 1 ELSE "none"
         ELSE /\ stack' = sfree.stack
              /\ ub' = (ub \/ sfree.ub)
              /\ pc' \in Outcomes("done", sfree.ub)
              /\ ret' = IF pc' = "done" THEN 0 ELSE "none"
              /\ UNCHANGED << elems, attrs >>
    /\ atret' = [ state |-> state, frames |-> Frames(stack),
                  reached |-> TRUE ]
    /\ UNCHANGED << xml, pos, state, tknidx, token, oom, brk, last >>
    /\ UNCHANGED caller

----------------------------------------------------------------------------
(* The inputs of the model.                                                *)

\* Documents are made of at most MaxTags pieces (tags and text).
MaxTags == 4

\* An opening tag carries at most MaxAttrs attributes.
MaxAttrs == 2

\* Arbitrary strings over RawChars have at most MaxChars characters.
MaxChars == 4

\* s repeated n times
Rep(s, n) == [ i \in 1..(n * Len(s)) |-> s[((i - 1) % Len(s)) + 1] ]

\* The concatenations of at most n members of P
RECURSIVE Concats(_, _)
Concats(P, n) ==
    IF n = 0 THEN { << >> }
    ELSE LET prev == Concats(P, n - 1)
         IN  prev \cup { s \o t : s \in prev, t \in P }

OpenTag(n) == << "<" >> \o n \o << ">" >>

CloseTag(n) == << "<", "/" >> \o n \o << ">" >>

EmptyTag(n) == << "<" >> \o n \o << "/", ">" >>

Comment(t) == << "<", "!", "-", "-" >> \o t \o << "-", "-", ">" >>

Attr(k, v) == << " " >> \o k \o << "=", Q >> \o v \o << Q >>

TagPieces ==
    { OpenTag(<<"a">>), OpenTag(<<"a","b">>), CloseTag(<<"a">>),
      CloseTag(<<"a","b">>), EmptyTag(<<"a">>), CloseTag(<<"r">>),
      << "x" >> }

TagDocs == Concats(TagPieces, MaxTags)

AttrPieces == { Attr(<<"k">>, <<"v">>), Attr(<<"j">>, <<"w">>) }

\* One tag with attributes, alone or inside an element, followed by a tail.
AttrDocs ==
    { pre \o << "<", "a" >> \o as \o end \o tail :
        pre  \in { << >>, OpenTag(<<"a">>) },
        as   \in Concats(AttrPieces, MaxAttrs),
        end  \in { << ">" >>, << "/", ">" >> },
        tail \in { << >>, CloseTag(<<"a">>), << "x" >> \o CloseTag(<<"a">>),
                   CloseTag(<<"a">>) \o CloseTag(<<"a">>),
                   EmptyTag(<<"a">>) \o CloseTag(<<"a">>) } }

RawChars == { << "<" >>, << "a" >>, << ">" >>, << "/" >> }

RawDocs == Concats(RawChars, MaxChars)

\* d nested elements
Nested(d) == Rep(OpenTag(<<"a">>), d) \o Rep(CloseTag(<<"a">>), d)

\* Inputs at the capacity limits of the parser.
LimitDocs ==
    { Nested(LILX_STACK_SIZE - 1), Nested(LILX_STACK_SIZE),
      Rep(OpenTag(<<"a">>), LILX_STACK_SIZE - 2)
        \o << "<", "a" >> \o Attr(<<"k">>, <<"v">>) \o << ">" >>
        \o Rep(CloseTag(<<"a">>), LILX_STACK_SIZE - 1),
      Rep(OpenTag(<<"a">>), LILX_STACK_SIZE - 1)
        \o << "<", "a" >> \o Attr(<<"k">>, <<"v">>) \o << ">" >>
        \o Rep(CloseTag(<<"a">>), LILX_STACK_SIZE) }
    \cup
    { << "<" >> \o Rep(<<"a">>, n) \o << "/", ">" >> :
        n \in { LILX_MAX_TOKEN_LENGTH - 1, LILX_MAX_TOKEN_LENGTH,
                LILX_MAX_TOKEN_LENGTH + 1 } }
    \cup
    \* an element with as many children as num_children can count, and one
    \* more
    { OpenTag(<<"a">>) \o Rep(OpenTag(<<"b">>) \o CloseTag(<<"b">>), n)
        \o CloseTag(<<"a">>) : n \in { UINT8_MAX, UINT8_MAX + 1 } }
    \cup
    \* two comments with whitespace between them: the pattern "-->s<!--sA"
    \* matches 8 bytes and the whitespace, UINT8_MAX + 1 and UINT8_MAX + 2
    \* bytes in all
    { OpenTag(<<"a">>) \o Comment(<<"x">>) \o Rep(<<" ">>, n)
        \o Comment(<<"y">>) \o CloseTag(<<"a">>) :
        n \in { UINT8_MAX - 7, UINT8_MAX - 6 } }

\* Documents the caller parses a second time with a comment or whitespace
\* added.
PlainDocs ==
    { OpenTag(<<"a">>) \o EmptyTag(<<"b">>) \o CloseTag(<<"a">>)
        \o << "<", "c" >> \o Attr(<<"k">>, <<"v">>) \o << ">" >>
        \o CloseTag(<<"c">>),
      OpenTag(<<"a">>) \o Comment(<<"x">>) \o CloseTag(<<"a">>),
      << "<", "a" >> \o Attr(<<"k">>, <<"v">>) \o << ">", "t" >>
        \o CloseTag(<<"a">>) }

\* x with s inserted in front of x[p]
Insert(x, p, s) == SubSeq(x, 1, p - 1) \o s \o SubSeq(x, p, Len(x))

\* The places between two tags: x[p-1] ends a tag and x[p] begins one.
BetweenTags(x) == { p \in 2..Len(x) : x[p - 1] = ">" /\ x[p] = "<" }

CommentTexts ==
    { << "c" >>, << " ", "c", " " >>, << >>, << "<", "b", "/", ">" >> }

WithComment(x) ==
    { Insert(x, p, Comment(t)) : p \in BetweenTags(x), t \in CommentTexts }

\* The places inside tag boundaries: after "<" or "</", before or after
\* ">" or "/>" (the delimiters of comments are left alone).
TagBoundaries(x) ==
    { p \in 2..(Len(x) + 1) :
        \/ x[p - 1] = "<" /\ CharAt(x, p) \notin { "/", "!" }
        \/ p > 2 /\ x[p - 2] = "<" /\ x[p - 1] = "/"
        \/ CharAt(x, p) = ">" /\ x[p - 1] \notin { "/", "-" }
        \/ CharAt(x, p) = "/" /\ CharAt(x, p + 1) = ">"
        \/ x[p - 1] = ">" }

WithSpace(x) ==
    { Insert(x, p, << w >>) : p \in TagBoundaries(x), w \in { " ", "\n" } }

\* Documents whose trees the caller searches with the tree utilities.
QueryDocs ==
    { \* <a kj="v" k="w"/>
      << "<", "a" >> \o Attr(<<"k","j">>, <<"v">>) \o Attr(<<"k">>, <<"w">>)
        \o << "/", ">" >>,
      \* <a k="v" j="w" k="x"/>
      << "<", "a" >> \o Attr(<<"k">>, <<"v">>) \o Attr(<<"j">>, <<"w">>)
        \o Attr(<<"k">>, <<"x">>) \o << "/", ">" >>,
      \* <b><a><b></b></a><b></b></b><a></a>
      OpenTag(<<"b">>) \o OpenTag(<<"a">>) \o OpenTag(<<"b">>)
        \o CloseTag(<<"b">>) \o CloseTag(<<"a">>) \o OpenTag(<<"b">>)
        \o CloseTag(<<"b">>) \o CloseTag(<<"b">>) \o OpenTag(<<"a">>)
        \o CloseTag(<<"a">>),
      \* UINT8_MAX + 1 elements of one name: <b> with UINT8_MAX children <b>
      OpenTag(<<"b">>)
        \o Rep(OpenTag(<<"b">>) \o CloseTag(<<"b">>), UINT8_MAX)
        \o CloseTag(<<"b">>) }

\* The concatenation of the members of a sequence of strings
RECURSIVE Cat(_)
Cat(ss) == IF ss = << >> THEN << >> ELSE Head(ss) \o Cat(Tail(ss))

\* The texts of the text elements of the laid-out documents.
Texts ==
    { << "J" >>, << "J", " ", "K" >>,
      << " ", "J", " ", " ", "K", "\n" >> }

\* A record is a sequence of at most MaxFields texts; a laid-out document
\* holds at most MaxRecords records.
MaxFields == 2

MaxRecords == 2

Records == UNION { [ 1..n -> Texts ] : n \in 1..MaxFields }

\* r with its texts in the opposite order
Reverse(r) == [ i \in 1..Len(r) |-> r[Len(r) + 1 - i] ]

\* The tables: records r and Reverse(r), in turn.
Tables ==
    { [ j \in 1..n |-> IF j % 2 = 1 THEN r ELSE Reverse(r) ] :
        r \in Records, n \in 1..MaxRecords }

\* The name of the i-th field of a record
FieldName(i) == IF i = 1 THEN << "n" >> ELSE << "o" >>

\* The document of table d, laid out as the snippet of src/test.c: one tag
\* or one text element per line, indented by its depth.
Layout(d) ==
    OpenTag(<<"p">>) \o << "\n" >>
      \o Cat([ j \in 1..Len(d) |->
                 << " " >> \o OpenTag(<<"g">>) \o << "\n" >>
                   \o Cat([ i \in 1..Len(d[j]) |->
                              << " ", " " >> \o OpenTag(FieldName(i))
                                \o d[j][i] \o CloseTag(FieldName(i))
                                \o << "\n" >> ])
                   \o << " " >> \o CloseTag(<<"g">>) \o << "\n" >> ])
      \o CloseTag(<<"p">>)

LayoutDocs == { Layout(d) : d \in Tables }

Inputs ==
    TagDocs \cup AttrDocs \cup RawDocs \cup LimitDocs \cup PlainDocs
      \cup QueryDocs \cup LayoutDocs

Init ==
    /\ xml \in Inputs
    /\ pc = "entry"
    /\ ret = "none"
    /\ pos = 1
    /\ state = ELEM_NAME_START
    /\ tknidx = 0
    /\ token = << >>
    /\ stack = NoStack
    /\ elems = << UninitElement >>
    /\ attrs = << >>
    /\ ub = FALSE
    /\ oom = FALSE
    /\ brk = "none"
    /\ last = NoEvent
    /\ atret = NotReturned
    /\ earlier = NoParse
    /\ query = NoQuery
    /\ pushed = << >>
    /\ op = NoOp

----------------------------------------------------------------------------
(* Tree utilities.                                                         *)

\* strcmp(a, b) for NUL-terminated a and b: 0 when equal, 1 otherwise.
strcmp(a, b) == IF a = b THEN 0 ELSE 1

\* The one member of a singleton set
The(S) == CHOOSE v \in S : TRUE

\* Lines 442-456. count is a uint8_t. children(lo, hi) is what the loop
\* adds to count for i = lo .. hi-1; the additions are modulo 2^8, so the
\* sum may be taken half by half.
RECURSIVE lilx_count_elements_by_name(_, _, _)
lilx_count_elements_by_name(es, root, name) ==
    LET RECURSIVE children(_, _)
        children(lo, hi) ==
            IF hi = lo THEN 0
            ELSE IF hi = lo + 1
            THEN lilx_count_elements_by_name(
                   es, es[root].children.a[lo + 1], name)
            ELSE LET mid == (lo + hi) \div 2
                 IN  U8(children(lo, mid) + children(mid, hi))
    IN  U8((IF strcmp(es[root].name.s, name) = 0 THEN 1 ELSE 0)
             + children(0, es[root].num_children))

\* Lines 458-488. ret is the value returned, stored the handles written
\* to elements[0], elements[1], ... by this call. children(lo, hi, length)
\* is what the loop finds and stores for i = lo .. hi-1 when it starts
\* with elements_length = length: the second half of the range starts with
\* what the first half left.
RECURSIVE lilx_get_elements_by_name(_, _, _, _)
lilx_get_elements_by_name(es, root, name, elements_length) ==
    IF elements_length = 0 THEN [ ret |-> 0, stored |-> << >> ]
    ELSE LET hit == strcmp(es[root].name.s, name) = 0
             RECURSIVE children(_, _, _)
             children(lo, hi, length) ==
                 IF hi = lo THEN [ ret |-> 0, stored |-> << >> ]
                 ELSE IF hi = lo + 1
                 THEN lilx_get_elements_by_name(
                        es, es[root].children.a[lo + 1], name, length)
                 ELSE The({ The({ [ ret    |-> U8(l.ret + r.ret),
                                    stored |-> l.stored \o r.stored ] :
                                  r \in { children((lo + hi) \div 2, hi,
                                                   U8(length - l.ret)) } }) :
                            l \in { children(lo, (lo + hi) \div 2,
                                             length) } })
             own  == IF hit THEN << EP(root) >> ELSE << >>
         IN  The({ [ ret    |-> U8(Len(own) + c.ret),
                     stored |-> own \o c.stored ] :
                   c \in { children(0, es[root].num_children,
                                    U8(elements_length - Len(own))) } })

\* Lines 490-501. len is a uint8_t.
lilx_get_attribute_by_name(es, as, element, name) ==
    LET len  == U8(Len(name))
        hits == { i \in 1..es[element].num_attributes :
                    strncmp(as[es[element].attributes.a[i]].name.s,
                            name, len) = 0 }
    IN  IF hits = {} THEN NULLP
        ELSE AP(es[element].attributes.a[
                  CHOOSE i \in hits : \A j \in hits : i <= j ])

\* The variables of lilx_create_tree, but pc.
parser == << xml, ret, pos, state, tknidx, token, stack, elems, attrs,
             ub, oom, brk, last, atret >>

\* The names the caller searches for.
QueryNames == { << "a" >>, << "b" >>, << "k" >>, << "j" >>, << "k", "j" >> }

\* The capacities of the caller's buffer of element pointers.
Capacities == 0..3

\* The caller holds the tree of a successful parse and has not searched it
\* yet (the utilities leave the tree as it is: a later call returns what
\* it returns as the first call).
HoldsTree ==
    /\ pc = "done"
    /\ ret = 0
    /\ ~ub
    /\ ~oom
    /\ xml \in QueryDocs

\* The caller calls lilx_count_elements_by_name on an element of the tree.
CountElements ==
    /\ HoldsTree
    /\ \E e \in 1..Len(elems), n \in QueryNames :
         query' = [ fn |-> "lilx_count_elements_by_name", root |-> e,
                    name |-> n,
                    ret |-> lilx_count_elements_by_name(elems, e, n) ]
    /\ pc' = "searched"
    /\ UNCHANGED << parser, earlier, stackuser >>

\* The caller calls lilx_get_elements_by_name on an element of the tree.
GetElements ==
    /\ HoldsTree
    /\ \E e \in 1..Len(elems), n \in QueryNames, length \in Capacities :
         \E r \in { lilx_get_elements_by_name(elems, e, n, length) } :
           query' = [ fn |-> "lilx_get_elements_by_name", root |-> e,
                      name |-> n, elements_length |-> length,
                      ret |-> r.ret, elements |-> r.stored ]
    /\ pc' = "searched"
    /\ UNCHANGED << parser, earlier, stackuser >>

\* The caller calls lilx_get_attribute_by_name on an element of the tree.
GetAttribute ==
    /\ HoldsTree
    /\ \E e \in 1..Len(elems), n \in QueryNames :
         query' = [ fn |-> "lilx_get_attribute_by_name", element |-> e,
                    name |-> n,
                    ret |-> lilx_get_attribute_by_name(elems, attrs, e, n) ]
    /\ pc' = "searched"
    /\ UNCHANGED << parser, earlier, stackuser >>

\* The caller, holding the tree of a successful parse, calls
\* lilx_create_tree again with a fresh root element: on the same document
\* with a comment or whitespace added.
Reparse ==
    /\ pc = "done"
    /\ ret = 0
    /\ ~ub
    /\ ~oom
    /\ earlier = NoParse
    /\ xml \in PlainDocs
    /\ xml' \in WithComment(xml) \cup WithSpace(xml)
    /\ earlier' = [ xml |-> xml, elems |-> elems, attrs |-> attrs ]
    /\ pc' = "entry"
    /\ ret' = "none"
    /\ pos' = 1
    /\ state' = ELEM_NAME_START
    /\ tknidx' = 0
    /\ token' = << >>
    /\ stack' = NoStack
    /\ elems' = << UninitElement >>
    /\ attrs' = << >>
    /\ brk' = "none"
    /\ last' = NoEvent
    /\ atret' = NotReturned
    /\ UNCHANGED << ub, oom, query, stackuser >>

Next ==
    \/ Enter
    \/ NoMatch
    \/ Match
    \/ Return
    \/ Reparse
    \/ CountElements
    \/ GetElements
    \/ GetAttribute

Spec == Init /\ [][Next]_vars

----------------------------------------------------------------------------
(* A stack used on its own: stack_create, then any sequence of stack_push, *)
(* stack_pop and stack_peek, then stack_free.                              *)

\* Stacks are created with a capacity of at most MaxCapacity.
MaxCapacity == 3

\* stack->top moves at most MaxBelow slots below the buffer (each pop that
\* empties the stack moves it one slot further down).
MaxBelow == 2

\* The handles the user pushes.
Handles == { NULLP, EP(1), EP(2) }

\* The state after stack_create(&stack, c) returned 0.
StackInit ==
    /\ \E c \in 0..MaxCapacity : stack = stack_create(c, FALSE).stack
    /\ pushed = << >>
    /\ op = NoOp
    /\ pc = "stack"
    /\ ub = FALSE
    /\ xml = << >>
    /\ ret = "none"
    /\ pos = 1
    /\ state = ELEM_NAME_START
    /\ tknidx = 0
    /\ token = << >>
    /\ elems = << UninitElement >>
    /\ attrs = << >>
    /\ oom = FALSE
    /\ brk = "none"
    /\ last = NoEvent
    /\ atret = NotReturned
    /\ earlier = NoParse
    /\ query = NoQuery

\* What a stack on its own leaves alone.
idle == << xml, ret, pos, state, tknidx, token, elems, attrs, oom, brk,
           last, atret, earlier, query >>

Push ==
    /\ pc = "stack"
    /\ \E h \in Handles :
         \E r \in { stack_push(stack, h) } :
           /\ stack' = r.stack
           /\ ub' = (ub \/ r.ub)
           /\ pc' \in Outcomes("stack", r.ub)
           /\ pushed' = IF r.ret = 0 THEN Append(pushed, h) ELSE pushed
           /\ op' = [ fn |-> "stack_push", element |-> h, ret |-> r.ret,
                      stack |-> stack, pushed |-> pushed ]
    /\ UNCHANGED idle

Pop ==
    /\ pc = "stack"
    /\ stack.top > -MaxBelow
    /\ \E r \in { stack_pop(stack) } :
         /\ stack' = r.stack
         /\ pushed' = IF r.element # NULLP
                       THEN SubSeq(pushed, 1, Len(pushed) - 1)
                       ELSE pushed
         /\ op' = [ fn |-> "stack_pop", element |-> NULLP,
                    ret |-> r.element, stack |-> stack, pushed |-> pushed ]
    /\ UNCHANGED << pc, ub, idle >>

Peek ==
    /\ pc = "stack"
    /\ op' = [ fn |-> "stack_peek", element |-> NULLP,
               ret |-> stack_peek(stack), stack |-> stack,
               pushed |-> pushed ]
    /\ UNCHANGED << pc, ub, stack, pushed, idle >>

Free ==
    /\ pc = "stack"
    /\ \E r \in { stack_free(stack) } :
         /\ stack' = r.stack
         /\ ub' = (ub \/ r.ub)
         /\ pc' \in Outcomes("freed", r.ub)
         /\ op' = [ fn |-> "stack_free", element |-> NULLP, ret |-> 0,
                    stack |-> stack, pushed |-> pushed ]
    /\ UNCHANGED << pushed, idle >>

StackNext == Push \/ Pop \/ Peek \/ Free

StackSpec == StackInit /\ [][StackNext]_vars

----------------------------------------------------------------------------
(* Vocabulary of the properties.                                           *)

\* lilx_create_tree has returned r
Returned(r) == pc = "done" /\ ret = r

\* t is made of the first Len(t) characters of n
IsPrefix(t, n) == Len(t) <= Len(n) /\ \A i \in 1..Len(t) : t[i] = n[i]

\* The topmost of a sequence of frames
Top(frames) == frames[Len(frames)]

\* The name stored in the block a frame designates
NameOf(h) ==
    IF h.k = "elem" THEN elems[h.id].name.s
    ELSE IF h.k = "attr" THEN attrs[h.id].name.s
    ELSE << >>

\* The blocks allocated by the call: every element but the caller's root,
\* and every attribute.
Allocated == [ elems |-> 2..Len(elems), attrs |-> 1..Len(attrs) ]

----------------------------------------------------------------------------
(* C1 .. C4                                                                *)

\* C1: whenever lilx_create_tree returns success, the automaton is in state
\* END and the stack holds exactly one frame, which is the caller's root
\* element.
C1_SuccessEndsOnRoot ==
    Returned(0) =>
        /\ atret.state = END
        /\ atret.frames = << EP(ROOT) >>

\* C2: whenever lilx_create_tree returns failure, every element and every
\* attribute allocated during the call has been released, and the caller's
\* root element has not.
C2_FailureReleasesAll ==
    Returned(1) =>
        /\ \A i \in Allocated.elems : elems[i].fr >= 1
        /\ \A a \in Allocated.attrs : attrs[a].fr >= 1
        /\ elems[ROOT].fr = 0

\* The last iteration ran the handler of an opening tag name or of an
\* attribute name, which needs a frame, on a stack that held
\* LILX_STACK_SIZE frames.
NameOnFullStack ==
    /\ last.kind = "match"
    /\ \/ last.state = ELEM_NAME_START /\ ~HasSelfClose(last.transition)
       \/ last.state = ATTR_NAME
    /\ Len(last.frames) = LILX_STACK_SIZE

\* No block has been released more than once.
ReleasedOnce ==
    /\ \A i \in 1..Len(elems) : elems[i].fr <= 1
    /\ \A a \in 1..Len(attrs) : attrs[a].fr <= 1

\* No child list or attribute list of a block in use holds a released block.
NoReleasedMember ==
    \A p \in 1..Len(elems) :
        elems[p].fr = 0 =>
            /\ \A c \in Children(elems, p) : elems[c].fr = 0
            /\ \A a \in Attributes(elems, p) : attrs[a].fr = 0

\* C3: when an opening tag name or an attribute name is completed while the
\* stack holds LILX_STACK_SIZE frames, lilx_create_tree returns failure, no
\* node is released more than once, and no node the failing handler
\* released is still in its parent's child list or attribute list.
C3_StackFullFailsCleanly ==
    NameOnFullStack =>
        /\ pc = "done" => ret = 1
        /\ ReleasedOnce
        /\ NoReleasedMember

\* C4: the driver loop terminates.  The loop is deterministic, so an
\* iteration that stays in the loop and leaves the cursor, the state, the
\* token, the stack and the heap as it found them is repeated without end:
\* no iteration does that.
C4_LoopTerminates == ~(pc = "loop" /\ last.same)

----------------------------------------------------------------------------
(* C5 .. C7                                                                *)

\* The last iteration ran the closing-tag handler, and the stack is as the
\* handler left it.
ClosingTagRan ==
    /\ last.kind = "match"
    /\ last.state = ELEM_NAME_END
    /\ pc \in { "loop", "exit" }

\* The stack the handler found was not empty and the closing token is made
\* of the first characters of the name of its top frame.
ClosingTagMatches ==
    /\ last.frames # << >>
    /\ IsPrefix(last.tkn, NameOf(Top(last.frames)))

TreeStringsBounded ==
    /\ \A i \in 1..Len(elems) :
         /\ Len(elems[i].name.s) <= LILX_MAX_TOKEN_LENGTH
         /\ Len(elems[i].body.s) <= LILX_MAX_TOKEN_LENGTH
    /\ \A a \in 1..Len(attrs) :
         /\ Len(attrs[a].name.s) <= LILX_MAX_TOKEN_LENGTH
         /\ Len(attrs[a].value.s) <= LILX_MAX_TOKEN_LENGTH

\* C6: if no transition matches while the pending token holds
\* LILX_MAX_TOKEN_LENGTH bytes, the loop is left and lilx_create_tree
\* returns failure; no token of more than LILX_MAX_TOKEN_LENGTH bytes is
\* passed to a handler or stored in the tree.
C6_TokenBound ==
    /\ (last.kind = "nomatch" /\ Len(last.tkn) = LILX_MAX_TOKEN_LENGTH) =>
         /\ brk = "token"
         /\ pc \in { "exit", "done", "crashed" }
         /\ pc = "done" => ret = 1
    /\ last.kind = "match" => Len(last.tkn) <= LILX_MAX_TOKEN_LENGTH
    /\ tknidx <= LILX_MAX_TOKEN_LENGTH
    /\ TreeStringsBounded

\* The parse was given up on a full token buffer and failure was returned.
C6_TokenOverflowFails ==
    /\ Returned(1)
    /\ brk = "token"
    /\ last.kind = "nomatch"
    /\ Len(last.tkn) = LILX_MAX_TOKEN_LENGTH

\* A pointer field that is NULL or points to storage in use
Sound(f) == f.st \in { "null", "live" }

\* C7: on every failure return the root is an empty initial node: it has no
\* children and no attributes, and none of its fields refers to released
\* storage.
C7_RootEmptyAfterFailure ==
    Returned(1) =>
        /\ elems[ROOT].num_children = 0
        /\ elems[ROOT].num_attributes = 0
        /\ Sound(elems[ROOT].name)
        /\ Sound(elems[ROOT].body)
        /\ Sound(elems[ROOT].children)
        /\ Sound(elems[ROOT].attributes)

----------------------------------------------------------------------------
(* C8: documents made of nested tags only.                                 *)

\* The ">" that ends the tag beginning at index p of x
TagEnd(x, p) ==
    CHOOSE g \in (p + 1)..Len(x) :
        x[g] = ">" /\ \A h \in (p + 1)..(g - 1) : x[h] # ">"

\* x is a sequence of tags <name> and </name>, every name alphanumeric and
\* not empty, with nothing before, between or after the tags.
TagsOnly(x) ==
    /\ Len(x) > 0
    /\ x[1] = "<"
    /\ x[Len(x)] = ">"
    /\ \A p \in 1..Len(x) :
         CASE x[p] = "<" ->
                /\ p > 1 => x[p - 1] = ">"
                /\ CharAt(x, p + 1) = "/" \/ isalnum(CharAt(x, p + 1))
           [] x[p] = "/" -> x[p - 1] = "<" /\ isalnum(CharAt(x, p + 1))
           [] x[p] = ">" -> p = Len(x) \/ x[p + 1] = "<"
           [] OTHER      -> isalnum(x[p])

\* The name inside the tag beginning at index p
TagName(x, p) ==
    SubSeq(x, IF x[p + 1] = "/" THEN p + 2 ELSE p + 1, TagEnd(x, p) - 1)

\* The opening and the closing tags of a document of tags only, by the
\* index of their "<", and the nesting level of each: that of the element
\* an opening tag opens or a closing tag closes (1: directly in the
\* document).
Nesting(x) ==
    LET open  == { p \in 1..Len(x) : x[p] = "<" /\ CharAt(x, p + 1) # "/" }
        close == { p \in 1..Len(x) : x[p] = "<" /\ CharAt(x, p + 1) = "/" }
    IN  [ open  |-> open,
          close |-> close,
          level |-> [ p \in open \cup close |->
                        Cardinality({ o \in open : o <= p })
                          - Cardinality({ c \in close : c < p }) ] ]

\* Every closing tag closes the last element opened at its level that is
\* still open, under the same name, and no element stays open.
ProperlyNested(x, n) ==
    /\ Cardinality(n.open) = Cardinality(n.close)
    /\ \A c \in n.close :
         /\ n.level[c] >= 1
         /\ \E o \in n.open :
              /\ o < c
              /\ n.level[o] = n.level[c]
              /\ \A o2 \in n.open :
                   (o < o2 /\ o2 < c) => n.level[o2] # n.level[c]
              /\ TagName(x, o) = TagName(x, c)

\* The deepest level of the document
NestingDepth(n) ==
    LET levels == { n.level[o] : o \in n.open }
    IN  CHOOSE m \in levels : \A l \in levels : l <= m

\* The document stays within the capacity of the parser: its elements and
\* the root fit on the stack, and its names fit in the token buffer.
WithinCapacity(x, n) ==
    /\ NestingDepth(n) + 1 <= LILX_STACK_SIZE
    /\ \A o \in n.open : Len(TagName(x, o)) <= LILX_MAX_TOKEN_LENGTH

\* Number of generations of elements below the elements of frontier
RECURSIVE Levels(_, _)
Levels(es, frontier) ==
    LET below == UNION { Children(es, v) : v \in frontier }
    IN  IF below = {} THEN 0 ELSE 1 + Levels(es, below)

\* The element made for the opening tag at index o: elements are allocated
\* in the order of the opening tags, after the root.
ElementOf(n, o) == Cardinality({ p \in n.open : p <= o }) + 1

\* C8: for every well-formed document made only of properly nested,
\* matching opening and closing tags, lilx_create_tree succeeds, the depth
\* of the tree below the root is the nesting depth of the document, and
\* every node has the name of its tag.  Read for documents within the
\* capacity of the parser and runs in which no allocation fails.
C8_NestedTagsBuildTree ==
    (pc = "done" /\ ~oom /\ TagsOnly(xml)) =>
        \A n \in { Nesting(xml) } :
            (ProperlyNested(xml, n) /\ WithinCapacity(xml, n)) =>
                /\ ret = 0
                /\ Levels(elems, { ROOT }) = NestingDepth(n)
                /\ Visited(elems, { ROOT }, { ROOT }) \ { ROOT }
                     = 2..(Cardinality(n.open) + 1)
                /\ \A o \in n.open :
                     elems[ElementOf(n, o)].name = LiveStr(TagName(xml, o))

----------------------------------------------------------------------------
(* C9, C10                                                                 *)

\* The tag of x that begins at index l is a self-closing tag without
\* attributes that ends at index g: "<", an alphanumeric name, "/>".
SelfClosingTag(x, l, g) ==
    /\ l >= 1
    /\ g <= Len(x)
    /\ g >= l + 3
    /\ x[l] = "<"
    /\ \A h \in (l + 1)..(g - 2) : isalnum(x[h])
    /\ x[g - 1] = "/"
    /\ x[g] = ">"

\* The last iteration ran the opening-tag handler with success on the name
\* of a self-closing tag: the token began right after the "<" of the tag
\* and the cursor had not passed its ">".
SelfClosingTagNamed ==
    /\ last.kind = "match"
    /\ last.state = ELEM_NAME_START
    /\ last.ret = 0
    /\ pc \in { "loop", "exit" }
    /\ \E g \in last.pos..Len(xml) :
         SelfClosingTag(xml, last.pos - Len(last.tkn) - 1, g)

\* C9: the element a self-closing tag creates is attached to the element
\* on top of the stack and is not pushed: the stack after the handler is
\* the stack before it.  Read for tags without attributes (the element of
\* a self-closing tag with attributes is on the stack until the value of
\* its last attribute has been read).
C9_SelfClosingNotPushed ==
    SelfClosingTagNamed =>
        /\ Frames(stack) = last.frames
        /\ last.frames # << >>
        /\ Top(last.frames).k = "elem"
        /\ Len(elems) \in Children(elems, Top(last.frames).id)

\* The name that ends just before index p and the quoted value that begins
\* just after it, p being the index of an "=".
AttrAt(x, p) ==
    LET s == CHOOSE s \in 1..(p - 1) :
                 /\ \A h \in s..(p - 1) : isalnum(x[h])
                 /\ ~isalnum(CharAt(x, s - 1))
        e == CHOOSE e \in (p + 2)..Len(x) :
                 x[e] = Q /\ \A h \in (p + 2)..(e - 1) : x[h] # Q
    IN  [ name  |-> LiveStr(SubSeq(x, s, p - 1)),
          value |-> LiveStr(SubSeq(x, p + 2, e - 1)) ]

EqSigns(x) == { p \in 1..Len(x) : x[p] = "=" }

\* Every "=" of x stands between an alphanumeric name and a quoted value.
AttrsWellFormed(x) ==
    \A p \in EqSigns(x) :
        /\ p > 1
        /\ isalnum(x[p - 1])
        /\ CharAt(x, p + 1) = Q
        /\ \E e \in (p + 2)..Len(x) : x[e] = Q

\* All the attributes of x are written in one tag.
OneTagCarriesAll(x) ==
    \A p, q \in EqSigns(x) :
        \A h \in p..q : x[h] # "<" /\ x[h] # ">"

\* The attributes written in x, in the order of the document
DocAttrs(x) ==
    LET eq == EqSigns(x)
    IN  [ i \in 1..Cardinality(eq) |->
            AttrAt(x, CHOOSE p \in eq :
                         Cardinality({ q \in eq : q <= p }) = i) ]

\* The name of the tag that carries the attributes of x
CarrierName(x) ==
    LET first == CHOOSE p \in EqSigns(x) : \A q \in EqSigns(x) : p <= q
        lt    == CHOOSE l \in 1..first :
                     x[l] = "<" /\ \A h \in (l + 1)..first : x[h] # "<"
        sp    == CHOOSE t \in lt..first :
                     isspace(x[t]) /\ \A h \in lt..(t - 1) : ~isspace(x[h])
    IN  SubSeq(x, lt + 1, sp - 1)

\* The attributes of element e, in the order of its attribute list
AttrList(e) ==
    [ i \in 1..elems[e].num_attributes |->
        [ name  |-> attrs[elems[e].attributes.a[i]].name,
          value |-> attrs[elems[e].attributes.a[i]].value ] ]

----------------------------------------------------------------------------
(* C11: comments between tags.                                             *)

\* The caller parsed a document successfully and has now parsed the same
\* document with one comment inserted between two of its tags.
CommentAdded == earlier # NoParse /\ xml \in WithComment(earlier.xml)

\* C11: comments are transparent. When a comment is inserted between two
\* tags of a document that parses successfully, the parse of the result
\* succeeds and builds the same tree: the same elements with the same names,
\* bodies, attributes and children, in the same order.
C11_CommentsTransparent ==
    (pc = "done" /\ CommentAdded /\ ~oom)
        => /\ ret = 0
           /\ elems = earlier.elems
           /\ attrs = earlier.attrs

----------------------------------------------------------------------------
(* C12: whitespace inside tag boundaries.                                  *)

\* The caller parsed a document successfully and has now parsed the same
\* document with one whitespace character added inside a tag boundary.
SpaceAdded == earlier # NoParse /\ xml \in WithSpace(earlier.xml)

\* C12: whitespace around tag delimiters is insignificant. When whitespace
\* is added after "<" or "</", or before or after ">" or "/>", in a document
\* that parses successfully, the parse of the result succeeds and builds a
\* tree identical to that of the unspaced document.
C12_WhitespaceInsignificant ==
    (pc = "done" /\ SpaceAdded /\ ~oom)
        => /\ ret = 0
           /\ elems = earlier.elems
           /\ attrs = earlier.attrs

----------------------------------------------------------------------------
(* C13: lilx_get_attribute_by_name.                                        *)

\* attributes[0 .. num_attributes-1] of element e, in order
AttrsOf(e) ==
    [ i \in 1..elems[e].num_attributes |-> elems[e].attributes.a[i] ]

\* C13: lilx_get_attribute_by_name returns the first attribute of the
\* element, in attribute order, whose name is the given name, and NULL when
\* the element has no attribute of that name.
C13_FirstAttributeNamed ==
    query.fn = "lilx_get_attribute_by_name"
        => LET as    == AttrsOf(query.element)
               named == { i \in 1..Len(as) :
                            attrs[as[i]].name.s = query.name }
           IN  query.ret = IF named = {} THEN NULLP
                           ELSE AP(as[CHOOSE i \in named :
                                        \A j \in named : i <= j])

----------------------------------------------------------------------------
(* C14: lilx_get_elements_by_name and lilx_count_elements_by_name.         *)

\* The elements of the subtree of e in depth-first pre-order, the children
\* of an element in document order.
RECURSIVE Preorder(_)
Preorder(e) ==
    LET RECURSIVE below(_, _)
        below(lo, hi) ==
            IF hi < lo THEN << >>
            ELSE IF hi = lo THEN Preorder(elems[e].children.a[lo])
            ELSE below(lo, (lo + hi) \div 2)
                   \o below((lo + hi) \div 2 + 1, hi)
    IN  << e >> \o below(1, elems[e].num_children)

\* The elements of the subtree of e that are named n, in that order.
Named(e, n) ==
    LET IsNamed(v) == elems[v].name.s = n
    IN  SelectSeq(Preorder(e), IsNamed)

Min(a, b) == IF a <= b THEN a ELSE b

\* C14: with a buffer of capacity N, lilx_get_elements_by_name stores
\* min(N, c) elements and returns that number, where c is the result of
\* lilx_count_elements_by_name for the same root and name; the elements
\* stored are the first min(N, c) elements of that name in a depth-first
\* pre-order traversal in document order.
C14_GetAgreesWithCount ==
    query.fn = "lilx_get_elements_by_name"
        => LET c == lilx_count_elements_by_name(elems, query.root,
                                                query.name)
               k == Min(query.elements_length, c)
               named == Named(query.root, query.name)
           IN  /\ query.ret = k
               /\ Len(query.elements) = k
               /\ k <= Len(named)
               /\ \A i \in 1..k : query.elements[i] = EP(named[i])

----------------------------------------------------------------------------
(* C15: the contract of the stack.                                         *)

\* C15: for a stack created with capacity c, after any sequence of calls:
\* stack_push fails, leaving the stack unchanged, exactly when the handle
\* is NULL or size equals c; stack_pop and stack_peek return NULL exactly
\* when the stack is empty; stack_peek does not change the stack; stack_pop
\* returns the handle pushed most recently and not popped yet; and
\* 0 <= size <= c all along.
C15_StackContract ==
    pc # "crashed"
        => /\ 0 <= stack.size
           /\ stack.size <= stack.capacity
           /\ stack.size = Len(pushed)
           /\ op.fn = "stack_push"
                => /\ op.ret # 0 <=> \/ op.element = NULLP
                                     \/ op.stack.size = op.stack.capacity
                   /\ op.ret # 0 => stack = op.stack
                   /\ op.ret = 0 => stack.size = op.stack.size + 1
           /\ op.fn = "stack_pop"
                => /\ op.ret = NULLP <=> op.pushed = << >>
                   /\ op.ret # NULLP
                        => /\ op.ret = op.pushed[Len(op.pushed)]
                           /\ stack.size = op.stack.size - 1
                   /\ op.ret = NULLP => stack = op.stack
           /\ op.fn = "stack_peek"
                => /\ op.ret = NULLP <=> op.pushed = << >>
                   /\ op.ret # NULLP => op.ret = op.pushed[Len(op.pushed)]
                   /\ stack = op.stack

\* A stack that was emptied and filled again pops the handle pushed last.
C15_LifoAfterEmptied ==
    /\ pc = "stack"
    /\ stack.top < 0
    /\ op.fn = "stack_pop"
    /\ op.pushed = << EP(1), EP(2), EP(1) >>
    /\ op.ret = EP(1)
    /\ pushed = << EP(1), EP(2) >>

----------------------------------------------------------------------------
(* C16: documents laid out with newlines and indentation.                  *)

\* t without the whitespace at its two ends
Trim(t) ==
    LET solid == { i \in 1..Len(t) : ~isspace(t[i]) }
        lo    == CHOOSE i \in solid : \A j \in solid : i <= j
        hi    == CHOOSE i \in solid : \A j \in solid : j <= i
    IN  IF solid = {} THEN << >> ELSE SubSeq(t, lo, hi)

\* The table the input is the layout of.
TableOf(x) == CHOOSE d \in Tables : Layout(d) = x

\* Blocks are allocated in document order: p is block 2, the j-th record
\* of table d is block RecordId(d, j), its i-th field the i-th block after.
RECURSIVE RecordId(_, _)
RecordId(d, j) ==
    IF j = 1 THEN 3 ELSE RecordId(d, j - 1) + 1 + Len(d[j - 1])

IsElement(e, name, body, children) ==
    /\ e \in 1..Len(elems)
    /\ elems[e].name = LiveStr(name)
    /\ elems[e].body = body
    /\ elems[e].num_attributes = 0
    /\ elems[e].num_children = Len(children)
    /\ \A i \in 1..Len(children) : elems[e].children.a[i] = children[i]

----------------------------------------------------------------------------
(* C17: the root frame.                                                    *)

\* The closing-tag handler ran on a stack whose top frame was the root.
RootExamined ==
    /\ ClosingTagRan
    /\ last.frames # << >>
    /\ Top(last.frames) = EP(ROOT)

\* C17: the root element is never the frame that the closing-tag handler
\* examines or pops; from its push to the end of the parse the root is the
\* bottom frame of the stack, whatever names the closing tags have.
C17_RootStaysOnStack ==
    /\ ~RootExamined
    /\ pc \in { "loop", "exit" }
         => /\ stack.size >= 1
            /\ Frames(stack)[1] = EP(ROOT)

----------------------------------------------------------------------------
(* C18: attribute frames.                                                  *)

\* The places of the attribute frames in the stack
AttrFrames ==
    { i \in 1..stack.size : Frames(stack)[i].k = "attr" }

\* C18: while a parse goes on the stack holds at most one attribute frame;
\* an attribute frame is on top of the stack exactly while the state is
\* ATTR_VAL, and in every other state the top frame, if there is one, is an
\* element: each handler finds the kind of frame it reads.
C18_OneAttributeFrame ==
    pc = "loop"
        => /\ Cardinality(AttrFrames) <= 1
           /\ state = ATTR_VAL <=> stack.size \in AttrFrames
           /\ (state # ATTR_VAL /\ stack.size > 0)
                => Top(Frames(stack)).k = "elem"

\* The value of the second attribute of a nested tag is being read.
C18_SecondAttributePending ==
    /\ pc = "loop"
    /\ state = ATTR_VAL
    /\ Len(attrs) = 2
    /\ Frames(stack) = << EP(ROOT), EP(2), EP(3), AP(2) >>

----------------------------------------------------------------------------
(* C19: writes to the token buffer.                                        *)

\* The last iteration wrote to the token buffer: a byte of the input when
\* no transition matched (line 399), the terminator when one did (line
\* 408); in both cases at the index tknidx had, the length of the token.
TokenWritten ==
    \/ last.kind = "match"
    \/ last.kind = "nomatch" /\ brk # "token"

\* C19: every write to the pending-token buffer, the terminator written
\* when a transition matched included, is at an index below
\* LILX_MAX_TOKEN_LENGTH, the size of the buffer.
C19_TokenWritesInBounds ==
    TokenWritten => Len(last.tkn) < LILX_MAX_TOKEN_LENGTH

----------------------------------------------------------------------------
(* C20: the top pointer of the stack.                                      *)

Max(a, b) == IF a >= b THEN a ELSE b

\* C20: after any sequence of stack_push and stack_pop calls on a created
\* stack, top is slot max(size - 1, 0) of the buffer that stack_create
\* allocated; a push therefore stores inside the buffer, and stack_free
\* releases the address of the buffer (slot 0).
C20_TopInsideBuffer ==
    /\ pc = "stack" => stack.top = Max(stack.size - 1, 0)
    /\ (op.fn = "stack_push" /\ op.ret = 0)
         => stack.top \in 0..(stack.capacity - 1)
    /\ op.fn = "stack_free" => stack.top = 0

----------------------------------------------------------------------------
(* C21: the cursor after a matched transition.                             *)

\* Number of bytes of x from index p on that the pattern tran matches from
\* its character t on, counted without a width: a maximal run of
\* whitespace for s, one byte for any other character (the byte tested by
\* 0 is the terminator).  Meant for patterns that match at p.
RECURSIVE MatchedBytes(_, _, _, _)
MatchedBytes(x, p, tran, t) ==
    IF t > Len(tran) THEN 0
    ELSE LET n == IF tran[t] = "s" THEN WsRun(x, p) ELSE 1
         IN  n + MatchedBytes(x, p + n, tran, t + 1)

\* The last iteration matched a transition and its handler succeeded.
Advanced == last.kind = "match" /\ last.ret = 0

\* C21: a matched transition moves the cursor by the number of bytes the
\* winning pattern matched less one, which is at least 1, however long
\* the whitespace runs are: the cursor lands on the byte matched by the
\* last pattern character and never stays where it was.
C21_CursorAdvance ==
    Advanced =>
        /\ pos - last.pos
             = MatchedBytes(xml, last.pos, last.transition, 1) - 1
        /\ pos - last.pos >= 1

----------------------------------------------------------------------------
(* C22: the transition selected by the state machine.                      *)

\* The candidates out of state s, numbered k = i * STATE_CHOICES + j in
\* the order they are evaluated (target state i, alternative j).
CandidateIds == 0..(NUM_STATES * STATE_CHOICES - 1)

Pattern(s, k) == Tran(s, k \div STATE_CHOICES, k % STATE_CHOICES)

\* The candidates out of state s whose pattern matches x at index p.
Candidates(s, x, p) ==
    { k \in CandidateIds :
        /\ Pattern(s, k) # NoTran
        /\ __lilx_compare(x, p, Pattern(s, k)).ret = 0 }

\* The candidate with the longest pattern string, the first evaluated one
\* among those of that length.
Selected(s, C) ==
    CHOOSE w \in C :
        \A c \in C :
            \/ Len(Pattern(s, c)) < Len(Pattern(s, w))
            \/ Len(Pattern(s, c)) = Len(Pattern(s, w)) /\ w <= c

----------------------------------------------------------------------------
(* C23: the length reported by the pattern matcher.                        *)

\* Number of bytes of x from index p on consumed by the pattern tran from
\* its character t on: a maximal run of whitespace for s, nothing for 0,
\* one byte for any other character.  Meant for patterns that match at p.
RECURSIVE ConsumedBytes(_, _, _, _)
ConsumedBytes(x, p, tran, t) ==
    IF t > Len(tran) THEN 0
    ELSE LET n == CASE tran[t] = "s" -> WsRun(x, p)
                    [] tran[t] = "0" -> 0
                    [] OTHER         -> 1
         IN  n + ConsumedBytes(x, p + n, tran, t + 1)

\* C23: when a pattern matches, the number the matcher stores in *offset
\* is the number of bytes the whole pattern consumed.
C23_ReportsConsumed ==
    last.kind = "match" =>
        LET r == __lilx_compare(xml, last.pos, last.transition)
        IN  /\ r.ret = 0
            /\ r.offset = ConsumedBytes(xml, last.pos, last.transition, 1)

----------------------------------------------------------------------------
(* C24: the state changes made by the driver.                              *)

\* The design-level relation: TagOpenName is ELEM_NAME_START, TagCloseName
\* ELEM_NAME_END, AttributeName ATTR_NAME, AttributeValue ATTR_VAL,
\* ElementBody ELEM, Comment COMMENT and End END.
DesignTargets(s) ==
    CASE s = ELEM_NAME_START ->
           { ELEM_NAME_START, ELEM_NAME_END, ATTR_NAME, ELEM, COMMENT, END }
      [] s = ELEM_NAME_END ->
           { ELEM_NAME_START, ELEM_NAME_END, ELEM, COMMENT, END }
      [] s = ATTR_NAME -> { ATTR_VAL }
      [] s = ATTR_VAL ->
           { ELEM_NAME_START, ELEM_NAME_END, ELEM, COMMENT, END }
      [] s = ELEM -> { ELEM_NAME_START, ELEM_NAME_END, COMMENT }
      [] s = COMMENT -> { ELEM_NAME_START, ELEM_NAME_END, ELEM, COMMENT }
      [] OTHER -> { }

\* The same relation with ATTR_NAME among the targets of ATTR_VAL.
TableTargets(s) ==
    IF s = ATTR_VAL THEN DesignTargets(s) \cup { ATTR_NAME }
    ELSE DesignTargets(s)

\* C24: every state change made by the driver goes from a state to one of
\* its targets in the design-level relation; END has no target.
C24_DesignRelation ==
    Advanced => state \in DesignTargets(last.state)

\* C24, amended: every state change made by the driver goes from a state
\* to one of its targets in the design-level relation extended by
\* AttributeValue -> AttributeName; END has no target.
C24_TableRelation ==
    Advanced => state \in TableTargets(last.state)

\* The driver went from ATTR_VAL to ATTR_NAME: the value of an attribute
\* was followed by the name of the next one.
C24_NextAttribute ==
    /\ Advanced
    /\ last.state = ATTR_VAL
    /\ state = ATTR_NAME

----------------------------------------------------------------------------
(* C25: one iteration of the driver loop.                                  *)

\* An iteration of the loop begins.
Iterates == pc = "loop" /\ LoopCond

\* What an iteration at which no transition matches does.
Accumulates ==
    /\ token' = Append(token, CharAt(xml, pos))
    /\ pos' = pos + 1
    /\ state' = state
    /\ stack' = stack
    /\ pc' = "loop"

\* What an iteration at which the transition fnd matches does: the handler
\* of the state the iteration began in runs on the pending token (one of
\* its malloc calls may fail), and its return value decides the rest.
Transits(fnd) ==
    \E f \in MallocCalls :
        LET r == __lilx_actions(state,
                   [ elems |-> elems, attrs |-> attrs, stack |-> stack ],
                   token, fnd.transition, f)
        IN  /\ elems' = r.elems
            /\ attrs' = r.attrs
            /\ stack' = r.stack
            /\ IF r.ret = 0
               THEN /\ pos' = pos + fnd.offset
                    /\ state' = fnd.state
                    /\ pc' = "loop"
               ELSE /\ pos' = pos
                    /\ state' = state
                    /\ pc' = "exit"

\* The loop was left because a handler failed, and lilx_create_tree
\* returns 1.
Aborts == (pc = "exit" /\ brk = "handler") => (pc' = "done" /\ ret' = 1)

\* C25: an iteration at which no transition matches appends one byte of
\* the input to the pending token and moves the cursor by one, state and
\* stack unchanged; one at which a transition matches runs the handler of
\* the state it began in, and moves the cursor by the consumed length and
\* takes the target state only if the handler succeeded; if it failed,
\* state and cursor stay, the loop is left and lilx_create_tree returns
\* failure.
C25_DriverIteration ==
    [][ /\ Iterates =>
             \E fnd \in { Found } :
                 IF fnd.ret # 0 THEN Accumulates ELSE Transits(fnd)
        /\ Aborts ]_vars

----------------------------------------------------------------------------
(* C26: where a new element is linked.                                     *)

\* Element c is the last of children[0 .. num_children-1] of element p.
LastChild(p, c) ==
    /\ elems[p].num_children >= 1
    /\ elems[p].children.a[elems[p].num_children] = c

\* The element frames of the stack, bottom first.
ElementFrames == SelectSeq(Frames(stack), LAMBDA h : h.k = "elem")

\* The last iteration ran the opening-tag handler with a frame on the
\* stack, and the handler succeeded; the element it created is the newest
\* block.
Opened ==
    /\ pc = "loop"
    /\ Advanced
    /\ last.state = ELEM_NAME_START
    /\ last.frames # << >>

\* C26: the element the opening-tag handler created is the last child of
\* the element that was on top of the stack, and at every turn of the loop
\* each element frame above the bottom one is the last child of the
\* element frame beneath it.
C26_LinkedUnderTop ==
    /\ Opened =>
         /\ Top(last.frames).k = "elem"
         /\ LastChild(Top(last.frames).id, Len(elems))
    /\ pc = "loop" =>
         \A i \in 2..Len(ElementFrames) :
             LastChild(ElementFrames[i - 1].id, ElementFrames[i].id)

----------------------------------------------------------------------------
(* C27: the value of an attribute is assigned once.                        *)

\* The iteration that begins runs the handler of ATTR_VAL.
ValueHandlerDue == Iterates /\ state = ATTR_VAL /\ Found.ret = 0

\* The frame on top of the stack is an attribute whose value is NULL.
FreshOnTop ==
    /\ stack_peek(stack).k = "attr"
    /\ attrs[stack_peek(stack).id].value = NullStr

\* A value that is set stays as it is until the attribute is gone; the
\* cleanup may free it.
ValuesKept ==
    \A a \in 1..Len(attrs) :
        (attrs[a].value # NullStr /\ a <= Len(attrs'))
            => attrs'[a].value \in { attrs[a].value,
                                     FreeField(attrs[a].value) }

\* The last iteration ran the handler of ATTR_VAL on an attribute frame
\* and the handler succeeded.
ValueStored ==
    /\ pc = "loop"
    /\ Advanced
    /\ last.state = ATTR_VAL
    /\ Top(last.frames).k = "attr"

\* The handler of ATTR_VAL, called once more with the attribute it has
\* just completed back on top of the stack, returns 1 and leaves the tree
\* as it is, whichever token it is given.
RejectsSecond ==
    \A again \in { stack_push(stack, Top(last.frames)) } :
        again.ret = 0 =>
            \A f \in MallocCalls, tkn \in { last.tkn, << "w" >> } :
                \E r \in { __lilx_attr_val_action(
                             [ elems |-> elems, attrs |-> attrs,
                               stack |-> again.stack ],
                             tkn, last.transition, f) } :
                    /\ r.ret = 1
                    /\ r.attrs = attrs
                    /\ r.elems = elems

\* C27: whenever the handler of ATTR_VAL runs, the frame on top of the
\* stack is an attribute without a value; no step of a run changes a value
\* that is set; and the handler fails without changing anything when the
\* attribute on top of the stack has a value.
C27_ValueAssignedOnce ==
    [][ /\ ValueHandlerDue => FreshOnTop
        /\ ValuesKept
        /\ ValueStored => RejectsSecond ]_vars

\* The handler of ATTR_VAL has just stored the value of the attribute that
\* was on top of the stack.
C27_ValueJustStored ==
    /\ ValueStored
    /\ attrs[Top(last.frames).id].value = LiveStr(last.tkn)

----------------------------------------------------------------------------
(* C28: the candidates that match at one place.                            *)

\* At most one candidate out of state s matches x at index p.
Unambiguous(s, x, p) == Cardinality(Candidates(s, x, p)) <= 1

\* C28: in every state and at every position of the input, the terminator
\* included, at most one candidate pattern out of that state matches; so
\* at every iteration of the driver the transition taken is the only one
\* that matches.
C28_OneCandidate ==
    /\ pc = "entry" =>
         \A s \in 0..(NUM_STATES - 1), p \in 1..(Len(xml) + 1) :
             Unambiguous(s, xml, p)
    /\ last.kind # "none" => Unambiguous(last.state, xml, last.pos)

\* The last iteration took a transition in a state whose row holds
\* several patterns that begin alike, and exactly one candidate matched.
C28_OnlyCandidateTaken ==
    /\ last.kind = "match"
    /\ last.state = COMMENT
    /\ Candidates(last.state, xml, last.pos)
         = { k \in CandidateIds :
               Pattern(last.state, k) = last.transition }
====
